---- MODULE Spec2Model ----
(***************************************************************************)
(* A model of src/ping.rs: the Ping builder and the blocking probe         *)
(* ping_with_socktype (one send, then a receive loop under a deadline).    *)
(*                                                                         *)
(* Time is counted in whole seconds.  The probe is one sequential thread;  *)
(* pc names the statement it executes next.  The transport (socket2) and   *)
(* the system clock are the environment: a transport call either succeeds  *)
(* or returns an io::Error, a blocking call lets time pass, and the system *)
(* clock (SystemTime is not monotonic) may be set back while the probe     *)
(* blocks.                                                                 *)
(*                                                                         *)
(* The free functions ping, rawsock::ping and dgramsock::ping (lines       *)
(* 114-182) hand their arguments to ping_with_socktype unchanged; the      *)
(* builder reaches every combination of arguments they can pass, so they   *)
(* have no action of their own.  EchoRequest, EchoReply and IpV4Packet     *)
(* (packet.rs) are not part of src/: a datagram is modelled by what the    *)
(* decoders make of it.                                                    *)
(***************************************************************************)
EXTENDS Integers, Sequences, FiniteSets, TLC

\* ------------------------------------------------------------------ bounds
\* Identifiers (u16) are drawn from 0..MaxIdent.
MaxIdent == 1
\* Sequence numbers (u16) are drawn from 0..MaxSeq.
MaxSeq == 1
\* A supplied timeout is one of 0..MaxTimeoutArg seconds.
MaxTimeoutArg == 1
\* The real time is followed up to MaxTime seconds and saturates there.
MaxTime == 6
\* The system clock is set back by at most MaxSkew seconds in all.
MaxSkew == 1
\* Non-matching Echo Replies delivered to the probe are counted up to MaxOther.
MaxOther == 2

\* --------------------------------------------------------- program constants
TOKEN_SIZE == 24
DefaultTimeout == 4
DefaultTtl == 64
DefaultSeqCnt == 1

\* ------------------------------------------------------------------ values
None == [some |-> FALSE]
Some(x) == [some |-> TRUE, v |-> x]

Min(a, b) == IF a <= b THEN a ELSE b

Idents == 0..MaxIdent
Seqs == 0..MaxSeq
\* A Token is TOKEN_SIZE bytes; the model's tokens repeat one byte.
Token(b) == [i \in 1..TOKEN_SIZE |-> b]
Tokens == {Token(0), Token(255)}
TimeoutArgs == 0..MaxTimeoutArg
TtlArgs == {1}
Ifaces == {"eth0"}
Families == {"V4", "V6"}

NoResult == [tag |-> "none"]
Ok == [tag |-> "Ok"]
Err(e) == [tag |-> "Err", error |-> e]
InternalError == [variant |-> "InternalError"]
DecodeV4Error == [variant |-> "DecodeV4Error"]
IoError(k) == [variant |-> "IoError", kind |-> k]

\* The std::io::ErrorKind a blocking socket call reports when its timeout
\* expires: WouldBlock on Unix, TimedOut on Windows.
TimeoutKind(o) == IF o = "windows" THEN "TimedOut" ELSE "WouldBlock"
TimeoutKinds == {"TimedOut", "WouldBlock"}
\* A representative of every other io::ErrorKind.
OtherKinds == {"PermissionDenied"}

NoFault == [op |-> "none"]
NoCall == [op |-> "none"]
Empty == [kind |-> "empty"]
Moved == [moved |-> TRUE]

VARIABLES
  os,            \* std::env::consts::OS
  self,          \* the Ping builder, Moved once ping() has consumed it
  pc,            \* the statement ping_with_socktype executes next
  socket_type, dest, iface, bind, ttl,   \* arguments still to be used
  timeout,       \* the resolved timeout (line 29)
  request,       \* the EchoRequest (line 39)
  buffer,        \* the encoded request (line 35)
  time_start,    \* line 27
  time_elapsed,  \* line 74
  rbuf,          \* the datagram in the 2048-byte receive buffer (line 78)
  reply,         \* the decoded EchoReply (line 81)
  result,        \* what ping_with_socktype returned
  write_timeout, \* SO_SNDTIMEO of the socket
  read_timeout,  \* SO_RCVTIMEO of the socket
  call,          \* the last transport call issued, with its arguments
  now,           \* real time since the probe started
  back,          \* by how much the system clock has been set back
  waited,        \* real time spent in the current blocking call
  fault,         \* history: the transport call that returned an error
  delivered,     \* history: what the receives have delivered
  deadlineSum,   \* history: sum of the receive deadlines set, followed up to timeout + 1
  setAt,         \* history: system-clock time elapsed when the deadline was set
  sent           \* history: how many times send_to was called, followed up to 2

vars == <<os, self, pc, socket_type, dest, iface, bind, ttl, timeout, request,
          buffer, time_start, time_elapsed, rbuf, reply, result, write_timeout,
          read_timeout, call, now, back, waited, fault, delivered, deadlineSum,
          setAt, sent>>

locals == <<socket_type, dest, iface, bind, ttl, timeout, request, buffer,
            time_start, time_elapsed, rbuf, reply>>
sockv == <<write_timeout, read_timeout, call>>
clock == <<now, back, waited>>
hist == <<fault, delivered, deadlineSum, setAt, sent>>

\* SystemTime::now()
SystemTime_now == now - back

\* ------------------------------------------------------------ pure helpers
\* Option::unwrap_or
unwrap_or(opt, d) == IF opt.some THEN opt.v ELSE d

\* (a variant that ignores the supplied timeout)
ResolveTimeoutIgnoresArg(t) == DefaultTimeout

\* lines 29-32: the timeout defaults to 4 seconds
ResolveTimeout(t) == IF t.some THEN t.v ELSE DefaultTimeout

\* lines 39-43: the request built from the optional overrides; ri and rt are
\* the values random() returned for the identifier and the default payload
MakeRequest(id, sq, pl, ri, rt) ==
  [ident |-> unwrap_or(id, ri),
   seq_cnt |-> unwrap_or(sq, DefaultSeqCnt),
   payload |-> unwrap_or(pl, rt)]

\* lines 63-67: the TTL / hop limit handed to the socket
ResolveTtl(t) == unwrap_or(t, DefaultTtl)

\* (a variant that sets the IPv4 TTL whatever the address family)
TtlOpAlwaysV4(d) == "set_ttl"

\* lines 63-67: the socket option that carries it, by address family
TtlOp(d) == IF d = "V4" THEN "set_ttl" ELSE "set_unicast_hops_v6"

\* packet.rs (not in src/): the fixed ICMP header is 8 bytes
ICMP_HEADER_SIZE == 8
\* line 12
ECHO_REQUEST_BUFFER_SIZE == ICMP_HEADER_SIZE + TOKEN_SIZE

\* packet.rs (not in src/): EchoRequest::encode::<variant> fails when the
\* buffer is shorter than header + payload, and otherwise writes the request
EchoRequest_encode(req, variant, buflen) ==
  IF buflen < ICMP_HEADER_SIZE + Len(req.payload)
  THEN [ok |-> FALSE]
  ELSE [ok |-> TRUE,
        bytes |-> [variant |-> variant, ident |-> req.ident,
                   seq_cnt |-> req.seq_cnt, payload |-> req.payload]]

\* packet.rs (not in src/): IpV4Packet::decode fails on a datagram whose outer
\* IPv4 header is malformed
IpV4Packet_decode(d) ==
  IF d.kind = "badip" THEN [ok |-> FALSE] ELSE [ok |-> TRUE, data |-> d]

\* packet.rs (not in src/): EchoReply::decode fails unless the ICMP message is
\* a well-formed Echo Reply of the variant, and otherwise yields its fields
EchoReply_decode(d) ==
  IF d.kind = "reply"
  THEN [ok |-> TRUE,
        reply |-> [ident |-> d.ident, seq_cnt |-> d.seq_cnt, payload |-> d.payload]]
  ELSE [ok |-> FALSE]

\* (a variant that adds the elapsed time instead of subtracting it)
ReadDeadlineAdds(t, e) == t + e

\* line 76: the receive deadline of an iteration
ReadDeadline(t, e) == t - e

\* (variants that accept every reply / that also compare the sequence number)
AcceptsAny(rp, rq) == TRUE
AcceptsIdentAndSeq(rp, rq) == rp.ident = rq.ident /\ rp.seq_cnt = rq.seq_cnt
\* (a variant that correlates on the sequence number, which probes share)
AcceptsOnSeq(rp, rq) == rp.seq_cnt = rq.seq_cnt

\* line 97: a reply is accepted on its identifier
Accepts(rp, rq) == rp.ident = rq.ident

\* (a variant that gives up a second early)
TimeIsOverEarly(e, t) == e + 1 >= t

\* line 107: the elapsed-time check after a non-matching reply
TimeIsOver(e, t) == e >= t

\* lines 108-109: the error of the elapsed-time check
TimedOutError == Err(IoError("TimedOut"))

\* (a variant that swallows the error and repeats the call)
PropagateRetries(k, here) == [pc |-> here, result |-> NoResult]

\* the ? operator on an io::Result: the error is returned to the caller
\* (here is the statement that failed)
Propagate(k, here) == [pc |-> "done", result |-> Err(IoError(k))]

\* (a variant that returns the decode error to the caller)
OnEchoDecodeErrFatal ==
  [pc |-> "done", result |-> Err([variant |-> "DecodeEchoReplyError"])]

\* (a variant that probes again after an undecodable datagram)
OnEchoDecodeErrResends == [pc |-> "send_to", result |-> NoResult]

\* lines 88 and 93: an ICMP payload that does not decode is skipped (continue)
OnEchoDecodeErr == [pc |-> "set_read_timeout", result |-> NoResult]

\* (a variant that skips the datagram like an undecodable ICMP payload)
OnIpDecodeErrSkips == [pc |-> "set_read_timeout", result |-> NoResult]

\* line 84: an outer IPv4 header that does not decode ends the probe
OnIpDecodeErr == [pc |-> "done", result |-> Err(DecodeV4Error)]

\* ------------------------------------------------------------------- Init
\* Ping::new(addr), lines 198-215
Ping_new(o, a) ==
  [socket_type |-> IF o = "windows" THEN "RAW" ELSE "DGRAM",
   addr |-> a, iface |-> None, bind |-> None, timeout |-> None, ttl |-> None,
   ident |-> None, seq_cnt |-> None, payload |-> None]

NoRequest == [ident |-> 0, seq_cnt |-> 0, payload |-> Token(0)]
NoReply == [ident |-> 0, seq_cnt |-> 0, payload |-> Token(0)]
NoDelivery == [match |-> FALSE, other |-> 0]

Init ==
  /\ os \in {"unix", "windows"}
  /\ \E a \in Families : self = Ping_new(os, a)
  /\ pc = "build"
  /\ socket_type = "none" /\ dest = "none"
  /\ iface = None /\ bind = None /\ ttl = None
  /\ timeout = 0 /\ request = NoRequest /\ buffer = Empty
  /\ time_start = 0 /\ time_elapsed = 0
  /\ rbuf = Empty /\ reply = NoReply
  /\ result = NoResult
  /\ write_timeout = 0 /\ read_timeout = 0 /\ call = NoCall
  /\ now = 0 /\ back = 0 /\ waited = 0
  /\ fault = NoFault /\ delivered = NoDelivery /\ deadlineSum = 0 /\ setAt = 0
  /\ sent = 0

\* ------------------------------------------------------------ the builder
BuilderStep == UNCHANGED <<os, pc, locals, result, sockv, clock, hist>>

\* lines 217-220
Ping_socket_type ==
  /\ pc = "build"
  /\ \E t \in {"RAW", "DGRAM"} : self' = [self EXCEPT !.socket_type = t]
  /\ BuilderStep
\* lines 222-225
Ping_iface ==
  /\ pc = "build"
  /\ \E i \in Ifaces : self' = [self EXCEPT !.iface = Some(i)]
  /\ BuilderStep
\* lines 227-230
Ping_bind ==
  /\ pc = "build"
  /\ \E a \in Families : self' = [self EXCEPT !.bind = Some(a)]
  /\ BuilderStep
\* lines 232-235
Ping_timeout ==
  /\ pc = "build"
  /\ \E t \in TimeoutArgs : self' = [self EXCEPT !.timeout = Some(t)]
  /\ BuilderStep
\* lines 237-240
Ping_ttl ==
  /\ pc = "build"
  /\ \E t \in TtlArgs : self' = [self EXCEPT !.ttl = Some(t)]
  /\ BuilderStep
\* lines 242-245
Ping_ident ==
  /\ pc = "build"
  /\ \E i \in Idents : self' = [self EXCEPT !.ident = Some(i)]
  /\ BuilderStep
\* lines 247-250
Ping_seq_cnt ==
  /\ pc = "build"
  /\ \E s \in Seqs : self' = [self EXCEPT !.seq_cnt = Some(s)]
  /\ BuilderStep
\* lines 252-255
Ping_payload ==
  /\ pc = "build"
  /\ \E t \in Tokens : self' = [self EXCEPT !.payload = Some(t)]
  /\ BuilderStep

\* ------------------------------------------------- ping_with_socktype
\* Ping::ping (lines 257-269) calls ping_with_socktype, whose lines 27-43
\* take the start timestamp, resolve the timeout and build the request.
Ping_ping ==
  /\ pc = "build"
  /\ \E ri \in Idents, rt \in Tokens :
       request' = MakeRequest(self.ident, self.seq_cnt, self.payload, ri, rt)
  /\ time_start' = SystemTime_now
  /\ timeout' = ResolveTimeout(self.timeout)
  /\ dest' = self.addr
  /\ socket_type' = self.socket_type
  /\ iface' = self.iface /\ bind' = self.bind /\ ttl' = self.ttl
  /\ buffer' = [kind |-> "zero", len |-> ECHO_REQUEST_BUFFER_SIZE]
  /\ self' = Moved
  /\ pc' = "encode"
  /\ UNCHANGED <<os, time_elapsed, rbuf, reply, result, sockv, clock, hist>>

\* lines 45-48 and 51-53: encode the request for the address family
Encode ==
  /\ pc = "encode"
  /\ LET e == EchoRequest_encode(request, IF dest = "V4" THEN "IcmpV4" ELSE "IcmpV6",
                                 buffer.len)
     IN IF e.ok
        THEN /\ buffer' = [kind |-> "request", len |-> buffer.len, bytes |-> e.bytes]
             /\ pc' = "socket_new" /\ result' = result
        ELSE /\ buffer' = buffer
             /\ pc' = "done" /\ result' = Err(InternalError)
  /\ UNCHANGED <<os, self, socket_type, dest, iface, bind, ttl, timeout, request,
                 time_start, time_elapsed, rbuf, reply, sockv, clock, hist>>

\* A transport call c issued at statement here: it succeeds and the probe goes
\* on to next, or it returns an io::Error of a kind in kinds, which ? propagates.
Transport(c, here, next, kinds) ==
  /\ pc = here
  /\ call' = c
  /\ \/ /\ pc' = next /\ result' = result /\ fault' = fault
     \/ \E k \in kinds :
          /\ pc' = Propagate(k, here).pc
          /\ result' = Propagate(k, here).result
          /\ fault' = [op |-> c.op, kind |-> k]

\* lines 49 and 54
Socket_new ==
  /\ Transport([op |-> "Socket::new",
                domain |-> IF dest = "V4" THEN "IPV4" ELSE "IPV6",
                type |-> socket_type,
                protocol |-> IF dest = "V4" THEN "ICMPV4" ELSE "ICMPV6"],
               "socket_new", "bind_device", OtherKinds)
  /\ socket_type' = "none"
  /\ UNCHANGED <<os, self, dest, iface, bind, ttl, timeout, request, buffer,
                 time_start, time_elapsed, rbuf, reply, write_timeout,
                 read_timeout, clock, delivered, deadlineSum, setAt, sent>>

\* line 57
Bind_device ==
  /\ Transport([op |-> "bind_device", arg |-> iface],
               "bind_device", IF bind.some THEN "bind" ELSE "set_ttl", OtherKinds)
  /\ iface' = None
  /\ UNCHANGED <<os, self, socket_type, dest, bind, ttl, timeout, request, buffer,
                 time_start, time_elapsed, rbuf, reply, write_timeout,
                 read_timeout, clock, delivered, deadlineSum, setAt, sent>>

\* lines 59-61
Bind ==
  /\ Transport([op |-> "bind", arg |-> bind.v], "bind", "set_ttl", OtherKinds)
  /\ bind' = None
  /\ UNCHANGED <<os, self, socket_type, dest, iface, ttl, timeout, request, buffer,
                 time_start, time_elapsed, rbuf, reply, write_timeout,
                 read_timeout, clock, delivered, deadlineSum, setAt, sent>>

\* lines 63-67
Set_ttl ==
  /\ Transport([op |-> TtlOp(dest), arg |-> ResolveTtl(ttl)],
               "set_ttl", "set_write_timeout", OtherKinds)
  /\ ttl' = None
  /\ UNCHANGED <<os, self, socket_type, dest, iface, bind, timeout, request, buffer,
                 time_start, time_elapsed, rbuf, reply, write_timeout,
                 read_timeout, clock, delivered, deadlineSum, setAt, sent>>

\* line 69
Set_write_timeout ==
  /\ Transport([op |-> "set_write_timeout", arg |-> timeout],
               "set_write_timeout", "send_to", OtherKinds)
  /\ write_timeout' = IF pc' = "send_to" THEN timeout ELSE write_timeout
  /\ waited' = 0
  /\ UNCHANGED <<os, self, socket_type, dest, iface, bind, ttl, timeout, request,
                 buffer, time_start, time_elapsed, rbuf, reply, read_timeout,
                 now, back, delivered, deadlineSum, setAt, sent>>

\* The kinds of io::Error a blocking call may return once it has blocked for
\* waited seconds under the socket timeout t (zero: no timeout is armed)
BlockingKinds(t) ==
  OtherKinds \cup (IF t > 0 /\ waited >= t THEN {TimeoutKind(os)} ELSE {})

\* line 71 (and line 74 on the way into the loop)
Send_to ==
  /\ Transport([op |-> "send_to", bytes |-> buffer.bytes, dest |-> dest],
               "send_to", "set_read_timeout", BlockingKinds(write_timeout))
  /\ time_elapsed' = 0
  /\ sent' = Min(sent + 1, 2)
  /\ UNCHANGED <<os, self, socket_type, dest, iface, bind, ttl, timeout, request,
                 buffer, time_start, rbuf, reply, write_timeout, read_timeout,
                 clock, delivered, deadlineSum, setAt>>

\* line 76
Set_read_timeout ==
  /\ Transport([op |-> "set_read_timeout", arg |-> ReadDeadline(timeout, time_elapsed)],
               "set_read_timeout", "read", OtherKinds)
  /\ IF pc' = "read"
     THEN /\ read_timeout' = ReadDeadline(timeout, time_elapsed)
          /\ deadlineSum' = Min(deadlineSum + ReadDeadline(timeout, time_elapsed), timeout + 1)
          /\ setAt' = SystemTime_now - time_start
     ELSE UNCHANGED <<read_timeout, deadlineSum, setAt>>
  /\ waited' = 0
  /\ UNCHANGED <<os, self, socket_type, dest, iface, bind, ttl, timeout, request,
                 buffer, time_start, time_elapsed, rbuf, reply, write_timeout, now,
                 back, delivered, sent>>

\* The hosts a datagram may come from: the target of the probe, or another.
Senders == {"target", "other"}

\* What a receive may deliver: a datagram whose outer IPv4 header is malformed
\* (IPv4 only: an ICMPv6 socket delivers no IP header), a datagram whose ICMP
\* payload is no Echo Reply, or an Echo Reply with any identifier, sequence
\* number and payload, sent by any host.  socket.read returns the bytes of the
\* datagram and not the address of its sender: from is there for the
\* environment and the properties, and no statement of the probe reads it.
Datagrams(family) ==
  {[kind |-> "badicmp"]}
  \cup (IF family = "V4" THEN {[kind |-> "badip"]} ELSE {})
  \cup {[kind |-> "reply", ident |-> i, seq_cnt |-> s, payload |-> t, from |-> h] :
          i \in Idents, s \in Seqs, t \in Tokens, h \in Senders}

Deliver(d) ==
  IF d.kind = "reply" /\ d.ident = request.ident
  THEN [delivered EXCEPT !.match = TRUE]
  ELSE IF d.kind = "reply"
  THEN [delivered EXCEPT !.other = Min(delivered.other + 1, MaxOther)]
  ELSE delivered

\* line 79, a datagram arrives before the receive deadline
Read_datagram ==
  /\ pc = "read"
  /\ read_timeout = 0 \/ waited < read_timeout
  /\ \E d \in Datagrams(dest) :
       /\ rbuf' = d
       /\ delivered' = Deliver(d)
  /\ call' = [op |-> "read"]
  /\ pc' = "decode"
  /\ UNCHANGED <<os, self, socket_type, dest, iface, bind, ttl, timeout, request,
                 buffer, time_start, time_elapsed, reply, result, write_timeout,
                 read_timeout, clock, fault, deadlineSum, setAt, sent>>

\* line 79, the receive returns an io::Error (the deadline passed, or another
\* fault), which ? propagates
Read_error ==
  /\ pc = "read"
  /\ call' = [op |-> "read"]
  /\ \E k \in BlockingKinds(read_timeout) :
       /\ pc' = Propagate(k, "read").pc
       /\ result' = Propagate(k, "read").result
       /\ fault' = [op |-> "read", kind |-> k]
  /\ UNCHANGED <<os, self, locals, write_timeout, read_timeout, clock,
                 delivered, deadlineSum, setAt, sent>>

\* line 103: SystemTime::now().duration_since(time_start)
duration_since(t, start) ==
  IF t < start THEN [ok |-> FALSE] ELSE [ok |-> TRUE, v |-> t - start]

\* lines 102-110: the elapsed-time check; a probe that goes on starts the next
\* iteration with the new time_elapsed
CheckElapsed(d) ==
  IF ~d.ok
  THEN [pc |-> "done", result |-> Err(InternalError), time_elapsed |-> time_elapsed]
  ELSE IF TimeIsOver(d.v, timeout)
  THEN [pc |-> "done", result |-> TimedOutError, time_elapsed |-> d.v]
  ELSE [pc |-> "set_read_timeout", result |-> NoResult, time_elapsed |-> d.v]

\* lines 81-110, the rest of an iteration once a datagram is in the buffer:
\* parse it (outer IPv4 header first on the IPv4 path), accept a reply with the
\* request's identifier, and otherwise check the elapsed time.  The receive
\* buffer and the reply live for one iteration (line 78).
Process ==
  /\ pc = "decode"
  /\ LET ip == IF dest = "V4" THEN IpV4Packet_decode(rbuf)
                              ELSE [ok |-> TRUE, data |-> rbuf]
         e == EchoReply_decode(ip.data)
         chk == CheckElapsed(duration_since(SystemTime_now, time_start))
     IN IF ~ip.ok
        THEN /\ pc' = OnIpDecodeErr.pc /\ result' = OnIpDecodeErr.result
             /\ UNCHANGED <<reply, time_elapsed>>
        ELSE IF ~e.ok
        THEN /\ pc' = OnEchoDecodeErr.pc /\ result' = OnEchoDecodeErr.result
             /\ UNCHANGED <<reply, time_elapsed>>
        ELSE IF Accepts(e.reply, request)
        THEN /\ pc' = "done" /\ result' = Ok
             /\ reply' = e.reply
             /\ time_elapsed' = time_elapsed
        ELSE /\ pc' = chk.pc /\ result' = chk.result
             /\ reply' = IF chk.pc = "done" THEN e.reply ELSE NoReply
             /\ time_elapsed' = chk.time_elapsed
  /\ rbuf' = IF pc' = "set_read_timeout" THEN Empty ELSE rbuf
  /\ UNCHANGED <<os, self, socket_type, dest, iface, bind, ttl, timeout, request,
                 buffer, time_start, sockv, clock, hist>>

\* ------------------------------------------------------- the environment
\* A second passes while the probe blocks in send_to or read; a call under a
\* socket timeout returns no later than that timeout.
Tick ==
  /\ \/ pc = "send_to" /\ (write_timeout = 0 \/ waited < write_timeout)
     \/ pc = "read" /\ (read_timeout = 0 \/ waited < read_timeout)
  /\ waited < MaxTime
  /\ now' = Min(now + 1, MaxTime)
  /\ waited' = waited + 1
  /\ UNCHANGED <<os, self, pc, locals, result, sockv, back, hist>>

\* The system clock is set back by a second while the probe blocks.
ClockSetBack ==
  /\ pc \in {"send_to", "read"}
  /\ back < MaxSkew
  /\ back' = back + 1
  /\ UNCHANGED <<os, self, pc, locals, result, sockv, now, waited, hist>>

Program ==
  \/ Encode \/ Socket_new \/ Bind_device \/ Bind \/ Set_ttl
  \/ Set_write_timeout \/ Send_to \/ Set_read_timeout
  \/ Process

ReadReturns == Read_datagram \/ Read_error

Next ==
  \/ Ping_socket_type \/ Ping_iface \/ Ping_bind \/ Ping_timeout
  \/ Ping_ttl \/ Ping_ident \/ Ping_seq_cnt \/ Ping_payload
  \/ Ping_ping
  \/ Encode \/ Socket_new \/ Bind_device \/ Bind \/ Set_ttl
  \/ Set_write_timeout \/ Send_to \/ Set_read_timeout
  \/ Read_datagram \/ Read_error
  \/ Process
  \/ Tick \/ ClockSetBack

Spec == Init /\ [][Next]_vars

\* The probe is a running thread: its next statement is eventually executed and
\* a blocked receive eventually returns.  Time does not stand still: the probe
\* cannot block in transport calls infinitely often without a second passing
\* (no infinite number of datagrams arrives within a bounded time).
LiveSpec ==
  /\ Init /\ [][Next]_vars
  /\ WF_vars(Program) /\ WF_vars(ReadReturns) /\ SF_vars(Tick)

TypeOK ==
  /\ pc \in {"build", "encode", "socket_new", "bind_device", "bind", "set_ttl",
             "set_write_timeout", "send_to", "set_read_timeout", "read",
             "decode", "done"}
  /\ timeout \in 0..DefaultTimeout
  /\ time_elapsed \in 0..MaxTime
  /\ pc = "set_read_timeout" => ReadDeadline(timeout, time_elapsed) >= 0
  /\ now \in 0..MaxTime /\ back \in 0..MaxSkew /\ waited \in 0..MaxTime
  /\ deadlineSum \in 0..(timeout + 1)
  /\ sent \in 0..2

\* ------------------------------------------------------------------ claims
IsTimeoutErr(r) ==
  /\ r.tag = "Err"
  /\ r.error.variant = "IoError"
  /\ r.error.kind \in TimeoutKinds

\* The datagram in the receive buffer is an Echo Reply carrying the request's
\* identifier / an Echo Reply carrying another identifier.
MatchingInBuffer == rbuf.kind = "reply" /\ rbuf.ident = request.ident
OtherInBuffer == rbuf.kind = "reply" /\ rbuf.ident # request.ident

\* C1: identifier filtering.  The probe returns Ok only once the reply that
\* carries its identifier has been delivered and processed; once that reply
\* has been delivered the probe ends with Ok; and a non-matching reply that is
\* processed while the time elapsed since the start is below the timeout never
\* ends the probe, however many of them come first.
C1_IdentifierFiltering ==
  /\ result = Ok => (delivered.match /\ MatchingInBuffer /\ reply.ident = request.ident)
  /\ (pc = "done" /\ delivered.match) => result = Ok
  /\ (pc = "done" /\ OtherInBuffer)
       => ~(SystemTime_now - time_start \in 0..(timeout - 1))

C1_Witness == result = Ok /\ delivered.other >= 2

\* C2: acceptance depends on the identifier alone.  A datagram that decodes to
\* an Echo Reply with the request's identifier is either still to be processed
\* or has ended the probe with Ok in that iteration, whatever its sequence
\* number and payload.
C2_IdentAloneAccepts ==
  MatchingInBuffer => (pc = "decode" \/ (pc = "done" /\ result = Ok))

C2_Witness ==
  /\ result = Ok
  /\ reply.seq_cnt # request.seq_cnt
  /\ reply.payload # request.payload

C4_DeadlineSumWithinTimeout == deadlineSum <= timeout

\* C4 as amended: every receive deadline set by set_read_timeout is at most
\* the timeout (and is not negative).
C4_EachDeadlineWithinTimeout ==
  call.op = "set_read_timeout" => call.arg \in 0..timeout

C4_Witness ==
  /\ pc = "read" /\ call.op = "set_read_timeout"
  /\ call.arg > 0 /\ call.arg < timeout

\* C5: every probe that was started eventually ends.
C5_ProbeTerminates == (pc # "build") ~> (pc = "done")

\* C6: a datagram whose ICMP payload does not decode never ends the probe and
\* produces no error: the step that processes it goes on to the next
\* iteration of the receive loop.
C6_EchoDecodeFailureNotFatal ==
  [][(pc = "decode" /\ rbuf.kind = "badicmp")
       => (pc' = "set_read_timeout" /\ result' = NoResult)]_vars

C6_Witness ==
  /\ pc = "set_read_timeout" /\ call.op = "read"
  /\ delivered.other = 0 /\ result = NoResult

\* C7: once a transport call has failed with a fault other than a timeout, the
\* probe has ended, the caller has that fault, and the failed call is the last
\* transport call of the probe.
C7_TransportFaultIsFatal ==
  (fault # NoFault /\ fault.kind \in OtherKinds)
  => /\ pc = "done"
     /\ result = Err(IoError(fault.kind))
     /\ call.op = fault.op

C7_Witness ==
  /\ fault.op = "set_read_timeout" /\ fault.kind \in OtherKinds
  /\ delivered.other >= 1 /\ pc = "done"

\* C8: when a receive times out, the caller gets the error of the elapsed-time
\* check (lines 108-109).
C8_ReadTimeoutIsTimedOut ==
  (fault.op = "read" /\ fault.kind \in TimeoutKinds) => result = TimedOutError

\* C9: the optional parameters resolve to the supplied value, and otherwise to
\* their defaults: timeout 4 s, TTL 64, sequence number 1, a random u16
\* identifier, a random 24-byte payload; the request's identifier is the one
\* sent and the one a reply is accepted on.
C9_Resolved ==
  /\ (pc \notin {"build", "done"}) =>
       /\ request.ident \in 0..65535
       /\ Len(request.payload) = 24
  /\ call.op = "send_to" => call.bytes.ident = request.ident
  /\ result = Ok => reply.ident = request.ident

C9_Defaults ==
  [][ /\ (pc = "build" /\ pc' = "encode") =>
           /\ timeout' = (IF self.timeout.some THEN self.timeout.v ELSE 4)
           /\ request'.seq_cnt = (IF self.seq_cnt.some THEN self.seq_cnt.v ELSE 1)
           /\ self.ident.some => request'.ident = self.ident.v
           /\ self.payload.some => request'.payload = self.payload.v
           /\ ttl' = self.ttl
      /\ (pc \in {"encode", "socket_new", "bind_device", "bind"}) =>
           (ttl' = ttl /\ request' = request /\ timeout' = timeout)
      /\ (pc = "set_ttl") =>
           call'.arg = (IF ttl.some THEN ttl.v ELSE 64)
      /\ (pc \notin {"build", "done"}) => (request' = request /\ timeout' = timeout)
      /\ C9_Resolved' ]_vars

C9_Witness ==
  /\ call.op = "set_ttl" /\ call.arg = 64 /\ pc = "set_write_timeout"
  /\ timeout = 4 /\ request.seq_cnt = 1

\* C10: whenever the probe blocks in a receive, the receive deadline in force
\* is the timeout minus the time that had elapsed since the start timestamp
\* when the deadline was set.
C10_DeadlineIsRemainingTime ==
  pc = "read" => read_timeout = timeout - setAt

\* C11: between two consecutive set_read_timeout calls of a probe the receive
\* deadline strictly decreases.  Stated for the steps between which the probe
\* blocked for at least a second in the receive and the system clock was not
\* set back, so that the whole seconds of the model and the clock play no part:
\* the deadline set after that receive is smaller than the one before it,
\* whether the datagram received was a non-matching reply or undecodable.
C11_DeadlineStrictlyDecreases ==
  [][(pc = "set_read_timeout" /\ call.op = "read" /\ pc' = "read"
        /\ waited >= 1 /\ back = 0)
       => read_timeout' < read_timeout]_vars

\* C12: a remaining budget of zero or less never reaches the transport: every
\* receive deadline handed to set_read_timeout is positive, and the probe never
\* blocks in a receive without a positive deadline in force.
C12_NoDeadlineWithoutBudget ==
  /\ call.op = "set_read_timeout" => call.arg > 0
  /\ pc = "read" => read_timeout > 0

\* C13: on the IPv4 path a datagram whose outer IPv4 header does not parse ends
\* the probe in the step that processes it, with DecodeV4Error; no Echo Reply
\* is decoded from it, and the receive that delivered it is the last transport
\* call of the probe.
C13_OuterHeaderFailureIsFatal ==
  [][ /\ (pc = "decode" /\ rbuf.kind = "badip")
           => /\ dest = "V4"
              /\ pc' = "done" /\ result' = Err(DecodeV4Error)
              /\ reply' = NoReply /\ call' = call
      /\ (result' = Err(DecodeV4Error))
           => (pc' = "done" /\ rbuf'.kind = "badip" /\ call'.op = "read") ]_vars

C13_Witness ==
  /\ pc = "done" /\ result = Err(DecodeV4Error)
  /\ rbuf.kind = "badip" /\ delivered.other >= 1

\* C14: the request is handed to send_to once: never more than once, exactly
\* once by the time the probe is in the receive loop or has succeeded, and
\* only when the last transport call set the send deadline to the full timeout;
\* every receive is issued in the receive loop, after that send, with the
\* set_read_timeout of its iteration as the transport call just before it.
C14_SingleSendThenReceives ==
  [][ /\ sent' <= 1
      /\ (pc' \in {"set_read_timeout", "read", "decode"} \/ result' = Ok) => sent' = 1
      /\ (call'.op = "send_to" /\ call.op # "send_to")
           => /\ sent = 0 /\ sent' = 1
              /\ call = [op |-> "set_write_timeout", arg |-> timeout]
              /\ write_timeout = timeout
              /\ call'.bytes = buffer.bytes
      /\ (call'.op = "read" /\ call.op # "read")
           => /\ pc = "read" /\ sent = 1
              /\ call = [op |-> "set_read_timeout", arg |-> read_timeout] ]_vars

C14_Witness ==
  /\ sent = 1 /\ pc = "read" /\ delivered.other >= 2

C18_OkOnlyBeforeDeadline ==
  (result = Ok /\ timeout > 0 /\ back = 0) => now - time_start < timeout

\* C19: the probe returns Ok only for a reply that the target sent.
C19_OkOnlyForTargetsReply ==
  result = Ok => rbuf.from = "target"

====
